---- MODULE Spec2Model ----
(***************************************************************************)
(* State-machine model of the scheduling and relay path of the Discord     *)
(* auto-bumper, final revision of src/index.js (lines 392-961): the        *)
(* environment check at startup, the config store, the per-guild timers    *)
(* (scheduleGuild), the gateway readiness signals, the external command    *)
(* resolver (fetchExternalBumpCommand), the relay executor                 *)
(* (executeExternalBump), the timer callback (sendBump), the slash command *)
(* /bump and the HTTP handlers POST /api/save, /api/remove and /api/bump;  *)
(* and of the relay of the first revision (lines 1-391) where it differs.  *)
(*                                                                         *)
(* One action is one run-to-completion step of the event loop: the code    *)
(* between two awaits of a handler, or one gateway event with its handler. *)
(***************************************************************************)
EXTENDS Integers, Sequences, FiniteSets, TLC

(***************************************************************************)
(* Bounds of the model.                                                    *)
(***************************************************************************)
MaxTasks == 2        \* handlers and timer callbacks in flight at once
MaxVersion == 2      \* versions the external bot publishes of its commands

(***************************************************************************)
(* JavaScript values.  A number is kept in tenths (fixed point), so that   *)
(* 0.5 is n = 5 and 60000 is n = 600000; NaN is a value of its own; a      *)
(* string carries its text and its length.                                 *)
(***************************************************************************)
Undefined == [t |-> "undefined", n |-> 0, s |-> ""]
Null == [t |-> "null", n |-> 0, s |-> ""]
NaN == [t |-> "NaN", n |-> 0, s |-> ""]
Num(tenths) == [t |-> "number", n |-> tenths, s |-> ""]
Whole(k) == Num(k * 10)
Str(text, length) == [t |-> "string", n |-> length, s |-> text]

\* The numeric value of the strings the model uses (StringToNumber).
StringToNumber(text) ==
    CASE text = "" -> Whole(0)
      [] text = "0" -> Whole(0)
      [] text = "5" -> Whole(5)
      [] text = "0.5" -> Num(5)
      [] text = "-5" -> Whole(-5)
      [] text = "120" -> Whole(120)
      [] OTHER -> NaN

\* Number(x)
Number(x) ==
    CASE x.t = "undefined" -> NaN
      [] x.t = "null" -> Whole(0)
      [] x.t = "string" -> StringToNumber(x.s)
      [] OTHER -> x

\* ToBoolean(x), as `||`, `!` and `if` use it
Truthy(x) ==
    CASE x.t = "number" -> x.n # 0
      [] x.t = "string" -> x.n > 0
      [] OTHER -> FALSE

\* a || b
Or(a, b) == IF Truthy(a) THEN a ELSE b

\* a ?? b
NullishCoalesce(a, b) == IF a.t \in {"undefined", "null"} THEN b ELSE a

\* Math.max(a, b) of two numbers
MathMax(a, b) ==
    IF a.t = "NaN" \/ b.t = "NaN" THEN NaN
    ELSE Num(IF a.n >= b.n THEN a.n ELSE b.n)

\* a * k for a number a and an integer literal k
Times(a, k) == IF a.t = "NaN" THEN NaN ELSE Num(a.n * k)

\* String(x).slice(0, k) of a string
Slice(x, k) == [x EXCEPT !.n = IF x.n <= k THEN x.n ELSE k]

(***************************************************************************)
(* Identifiers.                                                            *)
(***************************************************************************)
Guilds == {"G1", "G2"}
SessionIds == {"S1", "S2"}
NoGuild == ""        \* a missing guildId (falsy)
NoChannel == ""      \* a missing channelId (falsy)
NoSession == ""      \* null / undefined session id (falsy)
NoHandle == 0        \* undefined timer handle

DEFAULT_MESSAGE == Str("Bumped! <rocket>", 10)
MESSAGE_LIMIT == 2000

\* process.env.DEFAULT_INTERVAL_MINUTES: "120" unless the environment sets it
DefaultIntervalChoices == {Str("120", 3), Str("0.5", 3)}

(***************************************************************************)
(* The config store.                                                       *)
(***************************************************************************)
Entry(channelId, intervalMinutes, message) ==
    [channelId |-> channelId, intervalMinutes |-> intervalMinutes, message |-> message]

EmptyConfig == [g \in {} |-> Entry(NoChannel, Undefined, Undefined)]

\* config[guildId]?.intervalMinutes
IntervalOf(cfg, guildId) ==
    IF guildId \in DOMAIN cfg THEN cfg[guildId].intervalMinutes ELSE Undefined

\* config[guildId]?.channelId
ChannelOf(cfg, guildId) ==
    IF guildId \in DOMAIN cfg THEN cfg[guildId].channelId ELSE NoChannel

\* config[guildId] = entry
SetEntry(cfg, guildId, entry) ==
    [g \in DOMAIN cfg \cup {guildId} |-> IF g = guildId THEN entry ELSE cfg[g]]

\* delete config[guildId]
DeleteEntry(cfg, guildId) == [g \in DOMAIN cfg \ {guildId} |-> cfg[g]]

\* JSON.stringify of one value: NaN is written as null
JsonValue(x) == IF x.t = "NaN" THEN Null ELSE x

\* The file saveConfig writes: JSON.stringify(config)
Serialize(cfg) ==
    [exists |-> TRUE, valid |-> TRUE,
     content |-> [g \in DOMAIN cfg |->
                    [cfg[g] EXCEPT !.intervalMinutes = JsonValue(@)]]]

NoFile == [exists |-> FALSE, valid |-> FALSE, content |-> EmptyConfig]

\* a configs.json that JSON.parse rejects
CorruptFile == [exists |-> TRUE, valid |-> FALSE, content |-> EmptyConfig]

\* The config the process starts with: {} unless configs.json exists and parses
LoadConfig(file) == IF file.exists /\ file.valid THEN file.content ELSE EmptyConfig

\* configs.json as found at start: absent, written by an earlier run, or edited
InitialConfigFiles ==
    { NoFile,
      CorruptFile,
      Serialize("G1" :> Entry("C1", Whole(5), DEFAULT_MESSAGE)),
      Serialize(("G1" :> Entry("C1", Str("abc", 3), DEFAULT_MESSAGE))
                @@ ("G2" :> Entry("C1", Whole(0), DEFAULT_MESSAGE))),
      Serialize(("G1" :> Entry("C1", Whole(-5), DEFAULT_MESSAGE))
                @@ ("G2" :> Entry("C2", Null, DEFAULT_MESSAGE))),
      Serialize(("G1" :> Entry("C2", Num(5), DEFAULT_MESSAGE))
                @@ ("G2" :> Entry(NoChannel, Undefined, DEFAULT_MESSAGE))) }

(***************************************************************************)
(* Timers: the live (created and not cancelled) repeating timers, by       *)
(* handle, and the intervals map from guildId to handle.                   *)
(***************************************************************************)
\* setInterval returns a handle no live timer has: here the least such number
FreshHandle(tm) ==
    LET free == (1 .. Cardinality(DOMAIN tm) + 1) \ DOMAIN tm
    IN CHOOSE h \in free : \A k \in free : h <= k

\* clearInterval(handle)
clearInterval(tm, handle) == [h \in DOMAIN tm \ {handle} |-> tm[h]]

\* setInterval(() => sendBump(guildId), ms)
setInterval(tm, guildId, ms) == tm @@ (FreshHandle(tm) :> [guildId |-> guildId, ms |-> ms])

\* a mutant of the period: no clamp to one minute
PeriodMsNoClamp(cfg, guildId, default) ==
    Times(Number(NullishCoalesce(IntervalOf(cfg, guildId), default)), 60 * 1000)

\* The period scheduleGuild computes: Math.max(1, Number(stored ?? default)) * 60 * 1000
PeriodMs(cfg, guildId, default) ==
    LET minutes == Number(NullishCoalesce(IntervalOf(cfg, guildId), default))
    IN Times(MathMax(Whole(1), minutes), 60 * 1000)

\* intervals.get(guildId)
HandleOf(iv, guildId) == IF guildId \in DOMAIN iv THEN iv[guildId] ELSE NoHandle

\* a mutant of scheduleGuild: arms the new timer without cancelling the old one
scheduleGuildNoClear(st, cfg, guildId, default) ==
    LET ms == PeriodMs(cfg, guildId, default)
        h == FreshHandle(st.timers)
    IN [timers |-> setInterval(st.timers, guildId, ms),
        intervals |-> [g \in DOMAIN st.intervals \cup {guildId} |->
                         IF g = guildId THEN h ELSE st.intervals[g]]]

\* a mutant of scheduleGuild: cancels every live timer before it arms the new one
scheduleGuildClearsAll(st, cfg, guildId, default) ==
    LET ms == PeriodMs(cfg, guildId, default)
    IN [timers |-> (1 :> [guildId |-> guildId, ms |-> ms]),
        intervals |-> [g \in DOMAIN st.intervals \cup {guildId} |->
                         IF g = guildId THEN 1 ELSE st.intervals[g]]]

\* scheduleGuild(guildId) on the timer state st = [timers, intervals]
scheduleGuild(st, cfg, guildId, default) ==
    LET existing == HandleOf(st.intervals, guildId)
        cleared == IF existing # NoHandle THEN clearInterval(st.timers, existing)
                   ELSE st.timers
        ms == PeriodMs(cfg, guildId, default)
        h == FreshHandle(cleared)
    IN [timers |-> setInterval(cleared, guildId, ms),
        intervals |-> [g \in DOMAIN st.intervals \cup {guildId} |->
                         IF g = guildId THEN h ELSE st.intervals[g]]]

\* a mutant of the boot-time arming: arms nothing
scheduleNone(st, cfg, keys, default) == st

\* Object.keys(config).forEach((gid) => scheduleGuild(gid))
RECURSIVE scheduleAll(_, _, _, _)
scheduleAll(st, cfg, keys, default) ==
    IF keys = {} THEN st
    ELSE LET gid == CHOOSE g \in keys : TRUE
         IN scheduleAll(scheduleGuild(st, cfg, gid, default), cfg, keys \ {gid}, default)

(***************************************************************************)
(* The external platform: the command listings of the external bot, by     *)
(* scope, and the version it currently publishes.  Names are sequences of  *)
(* characters so that the case-insensitive match is computed.              *)
(***************************************************************************)
BUMP_COMMAND_NAME == <<"b", "u", "m", "p">>

LowerChar(c) ==
    CASE c = "A" -> "a" [] c = "B" -> "b" [] c = "C" -> "c" [] c = "D" -> "d"
      [] c = "E" -> "e" [] c = "F" -> "f" [] c = "G" -> "g" [] c = "H" -> "h"
      [] c = "I" -> "i" [] c = "J" -> "j" [] c = "K" -> "k" [] c = "L" -> "l"
      [] c = "M" -> "m" [] c = "N" -> "n" [] c = "O" -> "o" [] c = "P" -> "p"
      [] c = "Q" -> "q" [] c = "R" -> "r" [] c = "S" -> "s" [] c = "T" -> "t"
      [] c = "U" -> "u" [] c = "V" -> "v" [] c = "W" -> "w" [] c = "X" -> "x"
      [] c = "Y" -> "y" [] c = "Z" -> "z"
      [] OTHER -> c

\* name.toLowerCase()
toLowerCase(name) == [i \in DOMAIN name |-> LowerChar(name[i])]

NoCommand == [id |-> "", type |-> 0, name |-> <<>>, version |-> 0]

GuildBump == [id |-> "guild-cmd", name |-> <<"B", "u", "m", "p">>]
GlobalBump == [id |-> "global-cmd", name |-> <<"b", "u", "m", "p">>]
OtherCommand == [id |-> "other-cmd", name |-> <<"O", "t", "h", "e", "r">>]

\* The descriptor the platform returns for a listed command
Descriptor(c, version) == [id |-> c.id, type |-> 1, name |-> c.name, version |-> version]

\* The listing of one scope, as the platform answers it
Listing(list, version) == [i \in DOMAIN list |-> Descriptor(list[i], version)]

\* cmd?.name?.toLowerCase() === BUMP_COMMAND_NAME.toLowerCase()
Matches(cmd) == toLowerCase(cmd.name) = toLowerCase(BUMP_COMMAND_NAME)

HasMatch(commands) == \E i \in DOMAIN commands : Matches(commands[i])

\* commands.find(...): the first match
FindFirst(commands) ==
    commands[CHOOSE i \in DOMAIN commands :
               Matches(commands[i]) /\ \A j \in DOMAIN commands : Matches(commands[j]) => i <= j]

(***************************************************************************)
(* Errors and tasks.  A task is one asynchronous call in flight: a timer   *)
(* callback (sendBump), or one of the three handlers.                      *)
(***************************************************************************)
Err(status, message) == [status |-> status, message |-> message]
NoError == Err(0, "")
NotFoundError == Err(404, "Command bump not found for application")
ListingError == Err(403, "Missing Access")
NotReadyError == Err(0, "Bot gateway session not ready yet")

\* what the platform may answer to POST /interactions when it rejects it
PostRejections ==
    { Err(429, "You are on cooldown"),
      Err(429, "You are being rate limited."),
      Err(400, "Please wait another 30 minutes"),
      Err(500, "Internal Server Error") }

\* the same, with a message only the slash command reads as a cooldown
EntryRejections == PostRejections \cup {Err(503, "Try again later")}

Task(kind, pc, guildId, channelId) ==
    [kind |-> kind, pc |-> pc, guildId |-> guildId, channelId |-> channelId,
     intervalMinutes |-> Undefined, message |-> Undefined,
     sessionId |-> NoSession, command |-> NoCommand,
     validated |-> FALSE, waited |-> FALSE, hit |-> FALSE, degraded |-> FALSE, hadTimer |-> FALSE,
     relays |-> 0,                  \* calls of executeExternalBump so far
     posts |-> 0,                   \* calls of client.rest.post("/interactions") so far
     postedUnconfigured |-> FALSE,  \* the submission left while config had no entry
     err |-> NoError, status |-> 0, cooldown |-> FALSE]

IdleTask == Task("idle", "idle", NoGuild, NoChannel)

VARIABLES
    revision,                  \* 1: lines 1-391 of src/index.js, 2: lines 392-961
    missingEnv,                \* the environment values that are not set
    processState,              \* "starting", "exited" or "serving"
    DEFAULT_INTERVAL_MINUTES,  \* the environment's default interval (a string)
    config,                    \* guildId -> entry
    configFile,                \* configs.json on disk
    intervals,                 \* guildId -> timer handle
    timers,                    \* handle -> [guildId, ms] of every live timer
    clientReady,               \* client.isReady()
    readyPromise,              \* "pending" or "resolved"
    latestSessionId,
    resolveSessionReady,       \* TRUE while resolveSessionReady is a function
    sessionReadyPromise,       \* NoSession while pending, else its value
    shardSessionId,            \* client.ws.shards.first()?.sessionId
    reportedSessionIds,        \* every session id the gateway has given the shard
    bumpCommandCache,          \* guildId -> descriptor
    firstReturned,             \* guildId -> first descriptor the resolver returned
    guildCommands,             \* platform: guildId -> guild-scoped commands
    globalCommands,            \* platform: global commands of the external bot
    commandVersion,            \* platform: version the external bot publishes
    tasks                      \* slot -> task

vars == <<revision, missingEnv, processState, DEFAULT_INTERVAL_MINUTES, config, configFile, intervals, timers,
          clientReady, readyPromise, latestSessionId, resolveSessionReady,
          sessionReadyPromise, shardSessionId, reportedSessionIds, bumpCommandCache,
          firstReturned,
          guildCommands, globalCommands, commandVersion, tasks>>

envVars == <<revision, missingEnv, processState, DEFAULT_INTERVAL_MINUTES>>
configVars == <<config, configFile>>
timerVars == <<intervals, timers>>
sessionVars == <<latestSessionId, resolveSessionReady, sessionReadyPromise>>
gatewayVars == <<clientReady, readyPromise, shardSessionId, reportedSessionIds>>
cacheVars == <<bumpCommandCache, firstReturned>>
platformVars == <<guildCommands, globalCommands, commandVersion>>

Slots == 1 .. MaxTasks

EmptyCache == [g \in {} |-> NoCommand]
EmptyIntervals == [g \in {} |-> NoHandle]
EmptyTimers == [h \in {} |-> [guildId |-> NoGuild, ms |-> NaN]]

(***************************************************************************)
(* Task slots.  A new call takes the lowest slot that holds no call in     *)
(* flight; a finished call stays visible in its slot until then.           *)
(*                                                                         *)
(* An await of a promise that is already resolved is a microtask hop: the  *)
(* code after it runs before any other event, so it belongs to the same    *)
(* action.  A call that has to wait (for readyPromise, sessionReadyPromise *)
(* or a network answer) continues in an action of its own.                 *)
(***************************************************************************)
InFlight(t) == tasks[t].pc \notin {"idle", "done"}

FreeSlot(t) == ~InFlight(t) /\ \A u \in Slots : u < t => InFlight(u)

Put(t, task) == tasks' = [tasks EXCEPT ![t] = task]

\* A call that returned: the HTTP status of a handler's response, 0 for a callback
Done(task, status) ==
    [Task(task.kind, "done", task.guildId, task.channelId) EXCEPT
        !.intervalMinutes = task.intervalMinutes, !.message = task.message,
        !.waited = task.waited, !.degraded = task.degraded, !.hadTimer = task.hadTimer,
        !.relays = task.relays, !.posts = task.posts,
        !.err = task.err, !.status = status]

TimerState == [timers |-> timers, intervals |-> intervals]

SetTimers(st) ==
    /\ timers' = st.timers
    /\ intervals' = st.intervals

(***************************************************************************)
(* Gateway readiness (lines 455-488, 650-663).                             *)
(***************************************************************************)
SessionState == [latestSessionId |-> latestSessionId,
                 resolveSessionReady |-> resolveSessionReady,
                 sessionReadyPromise |-> sessionReadyPromise]

\* a mutant of markSessionReady: records the id, never resolves the promise
markSessionReadyNoResolve(sess, sessionId) ==
    IF sessionId = NoSession THEN sess
    ELSE [sess EXCEPT !.latestSessionId = sessionId, !.resolveSessionReady = FALSE]

\* a mutant of markSessionReady: no test of the id
markSessionReadyAnyId(sess, sessionId) ==
    [latestSessionId |-> sessionId,
     sessionReadyPromise |-> IF sess.resolveSessionReady THEN sessionId
                             ELSE sess.sessionReadyPromise,
     resolveSessionReady |-> FALSE]

\* markSessionReady(sessionId)
markSessionReady(sess, sessionId) ==
    IF sessionId = NoSession THEN sess
    ELSE [latestSessionId |-> sessionId,
          sessionReadyPromise |-> IF sess.resolveSessionReady THEN sessionId
                                  ELSE sess.sessionReadyPromise,
          resolveSessionReady |-> FALSE]

SetSession(sess) ==
    /\ latestSessionId' = sess.latestSessionId
    /\ resolveSessionReady' = sess.resolveSessionReady
    /\ sessionReadyPromise' = sess.sessionReadyPromise

\* The gateway's READY packet gives the shard a (new) session id
GatewaySession(s) ==
    /\ s # shardSessionId
    /\ shardSessionId' = s
    /\ reportedSessionIds' = reportedSessionIds \cup {s}
    /\ UNCHANGED <<envVars, configVars, timerVars, sessionVars, clientReady,
                   readyPromise, cacheVars, platformVars, tasks>>

\* The gateway invalidates the session: the shard has no session id until the
\* next READY packet (client.ws.shards.first()?.sessionId is null again)
SessionInvalidated ==
    /\ shardSessionId # NoSession
    /\ shardSessionId' = NoSession
    /\ UNCHANGED <<envVars, configVars, timerVars, sessionVars, clientReady,
                   readyPromise, reportedSessionIds, cacheVars, platformVars, tasks>>

\* client.on(Events.ShardReady, ...)
ShardReady ==
    /\ shardSessionId # NoSession
    /\ SetSession(markSessionReady(SessionState, shardSessionId))
    /\ UNCHANGED <<envVars, configVars, timerVars, gatewayVars, cacheVars,
                   platformVars, tasks>>

\* client.on(Events.ShardResume, ...)
ShardResume ==
    /\ clientReady
    /\ shardSessionId # NoSession
    /\ SetSession(markSessionReady(SessionState, shardSessionId))
    /\ UNCHANGED <<envVars, configVars, timerVars, gatewayVars, cacheVars,
                   platformVars, tasks>>

\* client.once(Events.ClientReady, ...)
ClientReady ==
    /\ ~clientReady
    /\ clientReady' = TRUE
    /\ SetSession(markSessionReady(SessionState, shardSessionId))
    /\ SetTimers(scheduleAll(TimerState, config, DOMAIN config, DEFAULT_INTERVAL_MINUTES))
    /\ readyPromise' = "resolved"
    /\ UNCHANGED <<envVars, configVars, shardSessionId, reportedSessionIds, cacheVars,
                   platformVars, tasks>>

\* ensureClientReady() is resolved
ClientIsReady == clientReady \/ readyPromise = "resolved"

(***************************************************************************)
(* POST /api/save (lines 873-895).                                         *)
(***************************************************************************)
\* a mutant of the stored interval: `??` in place of `||`
StoredIntervalNullish(intervalMinutes, default) ==
    NullishCoalesce(Number(intervalMinutes), Number(default))

\* Number(intervalMinutes) || Number(DEFAULT_INTERVAL_MINUTES)
StoredInterval(intervalMinutes, default) ==
    Or(Number(intervalMinutes), Number(default))

\* (message && String(message).slice(0, 2000)) || default message
StoredMessage(message) ==
    Or(IF Truthy(message) THEN Slice(message, MESSAGE_LIMIT) ELSE message, DEFAULT_MESSAGE)

\* POST /api/save up to its first wait
SaveRequest(t, guildId, channelId) ==
    /\ FreeSlot(t)
    /\ IF guildId = NoGuild \/ channelId = NoChannel
       THEN Put(t, Done(Task("save", "done", guildId, channelId), 400))
       ELSE IF ClientIsReady
       THEN Put(t, Task("save", "saveFetchGuild", guildId, channelId))
       ELSE Put(t, Task("save", "saveEnsureReady", guildId, channelId))
    /\ UNCHANGED <<envVars, configVars, timerVars, sessionVars, gatewayVars,
                   cacheVars, platformVars>>

\* readyPromise resolved; resolveTextChannel asks for the guild
SaveFetchGuild(t) ==
    /\ tasks[t].pc = "saveEnsureReady"
    /\ ClientIsReady
    /\ Put(t, [tasks[t] EXCEPT !.pc = "saveFetchGuild"])
    /\ UNCHANGED <<envVars, configVars, timerVars, sessionVars, gatewayVars,
                   cacheVars, platformVars>>

\* client.guilds.fetch answered; resolveTextChannel asks for the channel
SaveFetchChannel(t, ok) ==
    /\ tasks[t].pc = "saveFetchGuild"
    /\ IF ok THEN Put(t, [tasks[t] EXCEPT !.pc = "saveFetchChannel"])
       ELSE Put(t, Done([tasks[t] EXCEPT
                           !.err = Err(0, "Bot is not in this guild or cannot access it.")],
                        400))
    /\ UNCHANGED <<envVars, configVars, timerVars, sessionVars, gatewayVars,
                   cacheVars, platformVars>>

\* a mutant of the save: the entry is stored and armed before the channel is judged
SaveCommitStoresFirst(t, answer, intervalMinutes, message) ==
    /\ tasks[t].pc = "saveFetchChannel"
    /\ LET guildId == tasks[t].guildId
           entry == Entry(tasks[t].channelId,
                          StoredInterval(intervalMinutes, DEFAULT_INTERVAL_MINUTES),
                          StoredMessage(message))
           cfg == SetEntry(config, guildId, entry)
       IN /\ config' = cfg
          /\ configFile' = Serialize(cfg)
          /\ SetTimers(scheduleGuild(TimerState, cfg, guildId, DEFAULT_INTERVAL_MINUTES))
          /\ IF answer = "text"
             THEN Put(t, Done([tasks[t] EXCEPT !.intervalMinutes = intervalMinutes,
                                              !.message = message], 200))
             ELSE Put(t, Done([tasks[t] EXCEPT !.err =
                                 Err(0, "Selected channel is not a text channel.")], 400))
    /\ UNCHANGED <<envVars, sessionVars, gatewayVars, cacheVars, platformVars>>

\* guild.channels.fetch answered: the save is rejected, or stored and armed.
\* intervalMinutes and message of the body are first read here (lines 886-890).
SaveCommit(t, answer, intervalMinutes, message) ==
    /\ tasks[t].pc = "saveFetchChannel"
    /\ LET guildId == tasks[t].guildId
           entry == Entry(tasks[t].channelId,
                          StoredInterval(intervalMinutes, DEFAULT_INTERVAL_MINUTES),
                          StoredMessage(message))
           cfg == SetEntry(config, guildId, entry)
       IN IF answer = "text"
          THEN /\ config' = cfg
               /\ configFile' = Serialize(cfg)
               /\ SetTimers(scheduleGuild(TimerState, cfg, guildId,
                                          DEFAULT_INTERVAL_MINUTES))
               /\ Put(t, Done([tasks[t] EXCEPT !.intervalMinutes = intervalMinutes,
                                               !.message = message], 200))
          ELSE /\ Put(t, Done([tasks[t] EXCEPT !.err =
                                 Err(0, IF answer = "threw"
                                        THEN "Unable to access the selected channel."
                                        ELSE "Selected channel is not a text channel.")],
                              400))
               /\ UNCHANGED <<configVars, timerVars>>
    /\ UNCHANGED <<envVars, sessionVars, gatewayVars, cacheVars, platformVars>>

(***************************************************************************)
(* POST /api/remove (lines 898-908).                                       *)
(***************************************************************************)
\* a mutant of the removal: forgets the handle, leaves the timer running
removeTimerNoClear(st, guildId) ==
    [timers |-> st.timers,
     intervals |-> [g \in DOMAIN st.intervals \ {guildId} |-> st.intervals[g]]]

\* const iv = intervals.get(guildId); if (iv) clearInterval(iv); intervals.delete(guildId)
removeTimer(st, guildId) ==
    LET iv == HandleOf(st.intervals, guildId)
    IN [timers |-> IF iv # NoHandle THEN clearInterval(st.timers, iv) ELSE st.timers,
        intervals |-> [g \in DOMAIN st.intervals \ {guildId} |-> st.intervals[g]]]

\* a mutant of the removal: the file is not rewritten
RemoveNoWrite(t, task) ==
    /\ config' = DeleteEntry(config, task.guildId)
    /\ configFile' = configFile
    /\ SetTimers(removeTimer(TimerState, task.guildId))
    /\ Put(t, Done([task EXCEPT !.hadTimer = task.guildId \in DOMAIN intervals], 200))

\* a mutant of the removal: the guild's relays in flight are cancelled
RemoveCancelsRelays(t, task) ==
    LET cfg == DeleteEntry(config, task.guildId)
    IN /\ config' = cfg
       /\ configFile' = Serialize(cfg)
       /\ SetTimers(removeTimer(TimerState, task.guildId))
       /\ tasks' = [u \in Slots |->
                      IF u = t
                      THEN Done([task EXCEPT !.hadTimer = task.guildId \in DOMAIN intervals],
                                200)
                      ELSE IF InFlight(u) /\ tasks[u].guildId = task.guildId
                      THEN Done([tasks[u] EXCEPT !.err = Err(0, "Cancelled")], 0)
                      ELSE tasks[u]]

\* lines 902-907
Remove(t, task) ==
    LET cfg == DeleteEntry(config, task.guildId)
    IN /\ config' = cfg
       /\ configFile' = Serialize(cfg)
       /\ SetTimers(removeTimer(TimerState, task.guildId))
       /\ Put(t, Done([task EXCEPT !.hadTimer = task.guildId \in DOMAIN intervals], 200))

\* POST /api/remove up to its first wait, which is its end once the client is ready
RemoveRequest(t, guildId) ==
    /\ FreeSlot(t)
    /\ IF guildId = NoGuild
       THEN /\ Put(t, Done(Task("remove", "done", guildId, NoChannel), 400))
            /\ UNCHANGED <<configVars, timerVars>>
       ELSE IF ClientIsReady
       THEN Remove(t, Task("remove", "removeEnsureReady", guildId, NoChannel))
       ELSE /\ Put(t, Task("remove", "removeEnsureReady", guildId, NoChannel))
            /\ UNCHANGED <<configVars, timerVars>>
    /\ UNCHANGED <<envVars, sessionVars, gatewayVars, cacheVars, platformVars>>

\* readyPromise resolved: a removal that waited for it
RemoveCommit(t) ==
    /\ tasks[t].pc = "removeEnsureReady"
    /\ ClientIsReady
    /\ Remove(t, tasks[t])
    /\ UNCHANGED <<envVars, sessionVars, gatewayVars, cacheVars, platformVars>>

(***************************************************************************)
(* The relay: sendBump (622-635), POST /api/bump (911-942),                *)
(* executeExternalBump (597-620), ensureGatewaySession (477-488) and       *)
(* fetchExternalBumpCommand (544-595).                                     *)
(***************************************************************************)
\* /cooldown|please wait/i.test(rawMessage), on the messages of the model
\* The characters of an error message
Text(message) ==
    CASE message = "You are on cooldown" ->
             <<"Y", "o", "u", " ", "a", "r", "e", " ", "o", "n", " ", "c",
               "o", "o", "l", "d", "o", "w", "n">>
      [] message = "You are being rate limited." ->
             <<"Y", "o", "u", " ", "a", "r", "e", " ", "b", "e", "i", "n",
               "g", " ", "r", "a", "t", "e", " ", "l", "i", "m", "i", "t",
               "e", "d", ".">>
      [] message = "Please wait another 30 minutes" ->
             <<"P", "l", "e", "a", "s", "e", " ", "w", "a", "i", "t", " ",
               "a", "n", "o", "t", "h", "e", "r", " ", "3", "0", " ", "m",
               "i", "n", "u", "t", "e", "s">>
      [] message = "Internal Server Error" ->
             <<"I", "n", "t", "e", "r", "n", "a", "l", " ", "S", "e", "r",
               "v", "e", "r", " ", "E", "r", "r", "o", "r">>
      [] message = "Try again later" ->
             <<"T", "r", "y", " ", "a", "g", "a", "i", "n", " ", "l", "a",
               "t", "e", "r">>
      [] message = "Command bump not found for application" ->
             <<"C", "o", "m", "m", "a", "n", "d", " ", "b", "u", "m", "p",
               " ", "n", "o", "t", " ", "f", "o", "u", "n", "d", " ", "f",
               "o", "r", " ", "a", "p", "p", "l", "i", "c", "a", "t", "i",
               "o", "n">>
      [] message = "Missing Access" ->
             <<"M", "i", "s", "s", "i", "n", "g", " ", "A", "c", "c", "e",
               "s", "s">>
      [] message = "Bot gateway session not ready yet" ->
             <<"B", "o", "t", " ", "g", "a", "t", "e", "w", "a", "y", " ",
               "s", "e", "s", "s", "i", "o", "n", " ", "n", "o", "t", " ",
               "r", "e", "a", "d", "y", " ", "y", "e", "t">>
      [] message = "Bot is not in this guild or cannot access it." ->
             <<"B", "o", "t", " ", "i", "s", " ", "n", "o", "t", " ", "i",
               "n", " ", "t", "h", "i", "s", " ", "g", "u", "i", "l", "d",
               " ", "o", "r", " ", "c", "a", "n", "n", "o", "t", " ", "a",
               "c", "c", "e", "s", "s", " ", "i", "t", ".">>
      [] message = "Unable to access the selected channel." ->
             <<"U", "n", "a", "b", "l", "e", " ", "t", "o", " ", "a", "c",
               "c", "e", "s", "s", " ", "t", "h", "e", " ", "s", "e", "l",
               "e", "c", "t", "e", "d", " ", "c", "h", "a", "n", "n", "e",
               "l", ".">>
      [] message = "Selected channel is not a text channel." ->
             <<"S", "e", "l", "e", "c", "t", "e", "d", " ", "c", "h", "a",
               "n", "n", "e", "l", " ", "i", "s", " ", "n", "o", "t", " ",
               "a", " ", "t", "e", "x", "t", " ", "c", "h", "a", "n", "n",
               "e", "l", ".">>
      [] OTHER -> <<>>

\* text has pattern as a substring
Contains(text, pattern) ==
    \E i \in 1 .. Len(text) - Len(pattern) + 1 :
        SubSeq(text, i, i + Len(pattern) - 1) = pattern

\* /a|b|.../i.test(message) for literal alternatives
TestIgnoreCase(alternatives, message) ==
    \E a \in alternatives : Contains(toLowerCase(Text(message)), toLowerCase(a))

Cooldown == <<"c", "o", "o", "l", "d", "o", "w", "n">>
PleaseWait == <<"p", "l", "e", "a", "s", "e", " ", "w", "a", "i", "t">>
TryAgain == <<"t", "r", "y", " ", "a", "g", "a", "i", "n">>

\* /cooldown|please wait/i.test(rawMessage): POST /api/bump, line 928
CooldownPattern(message) == TestIgnoreCase({Cooldown, PleaseWait}, message)

\* /cooldown/i.test(rawMessage): POST /api/bump of the first revision, line 371
CooldownPatternRev1(message) == TestIgnoreCase({Cooldown}, message)

\* err?.status === 429 || /cooldown|try again/i.test(rawMessage): slash command, lines 703-704
SlashCooldown(err) == err.status = 429 \/ TestIgnoreCase({Cooldown, TryAgain}, err.message)

\* isCooldown of POST /api/bump
ApiCooldown(err) ==
    IF revision = 1 THEN CooldownPatternRev1(err.message) ELSE CooldownPattern(err.message)

\* The relay of task ended with err: sendBump logs it, POST /api/bump answers, the
\* slash command edits its reply
Failed(task, err) ==
    IF task.kind = "bump"
    THEN LET isCooldown == ApiCooldown(err)
         IN [Done([task EXCEPT !.err = err], IF isCooldown THEN 200 ELSE 500)
               EXCEPT !.cooldown = isCooldown]
    ELSE IF task.kind = "slash"
    THEN [Done([task EXCEPT !.err = err], 0) EXCEPT !.cooldown = SlashCooldown(err)]
    ELSE Done([task EXCEPT !.err = err], 0)

\* The relay of task succeeded
Succeeded(task) == Done(task, IF task.kind = "bump" THEN 200 ELSE 0)

\* client.rest.post("/interactions", ...) is called with the command: lines 602-619
Submit(task, command) ==
    [task EXCEPT !.pc = "post", !.command = command, !.posts = @ + 1,
                 !.postedUnconfigured = task.guildId \notin DOMAIN config]

\* fetchExternalBumpCommand up to the guild-scoped query: lines 545-573
FetchStart(task) ==
    IF task.guildId \in DOMAIN bumpCommandCache
    THEN Submit([task EXCEPT !.hit = TRUE], bumpCommandCache[task.guildId])
    ELSE [task EXCEPT !.pc = "guildQuery"]

\* ensureGatewaySession once the client is ready (lines 479-485), then on to the lookup
GatewaySessionStep(task, sess) ==
    IF sess.latestSessionId # NoSession
    THEN [task |-> FetchStart([task EXCEPT !.sessionId = sess.latestSessionId]),
          sess |-> sess]
    ELSE IF shardSessionId # NoSession
    THEN [task |-> FetchStart([task EXCEPT !.sessionId = shardSessionId]),
          sess |-> markSessionReady(sess, shardSessionId)]
    ELSE [task |-> [task EXCEPT !.pc = "awaitSessionReady", !.waited = TRUE],
          sess |-> sess]

\* executeExternalBump(guildId, channelId) is called: the relay up to its first wait
StartRelay(kind, guildId, channelId) ==
    LET task == [Task(kind, "ensureGatewaySession", guildId, channelId) EXCEPT !.relays = 1]
    IN IF ClientIsReady THEN GatewaySessionStep(task, SessionState)
       ELSE [task |-> task, sess |-> SessionState]

\* a mutant of sendBump: relays without looking at the configured channel
TimerFireNoGuard(h, t) ==
    /\ h \in DOMAIN timers
    /\ FreeSlot(t)
    /\ LET r == StartRelay("tick", timers[h].guildId, ChannelOf(config, timers[h].guildId))
       IN Put(t, r.task) /\ SetSession(r.sess)
    /\ UNCHANGED <<envVars, configVars, timerVars, gatewayVars, cacheVars, platformVars>>

\* A timer fires: sendBump(guildId) up to its first wait
TimerFire(h, t) ==
    /\ h \in DOMAIN timers
    /\ FreeSlot(t)
    /\ LET guildId == timers[h].guildId
           channelId == ChannelOf(config, guildId)
           r == StartRelay("tick", guildId, channelId)
       IN IF channelId = NoChannel
          THEN Put(t, Done(Task("tick", "done", guildId, NoChannel), 0))
               /\ UNCHANGED sessionVars
          ELSE Put(t, r.task) /\ SetSession(r.sess)
    /\ UNCHANGED <<envVars, configVars, timerVars, gatewayVars, cacheVars, platformVars>>

\* a mutant of POST /api/bump: refused while a relay of the guild is in flight
BumpRequestExclusive(t, guildId, channelId) ==
    /\ FreeSlot(t)
    /\ LET effectiveChannelId == IF channelId # NoChannel THEN channelId
                                 ELSE ChannelOf(config, guildId)
           r == StartRelay("bump", guildId, effectiveChannelId)
       IN IF guildId = NoGuild \/ effectiveChannelId = NoChannel
          THEN Put(t, Done(Task("bump", "done", guildId, effectiveChannelId), 400))
               /\ UNCHANGED sessionVars
          ELSE IF \E u \in Slots : InFlight(u) /\ tasks[u].guildId = guildId
          THEN Put(t, Done(Task("bump", "done", guildId, effectiveChannelId), 409))
               /\ UNCHANGED sessionVars
          ELSE Put(t, r.task) /\ SetSession(r.sess)
    /\ UNCHANGED <<envVars, configVars, timerVars, gatewayVars, cacheVars, platformVars>>

\* POST /api/bump up to its first wait
BumpRequest(t, guildId, channelId) ==
    /\ FreeSlot(t)
    /\ LET effectiveChannelId == IF channelId # NoChannel THEN channelId
                                 ELSE ChannelOf(config, guildId)
           r == StartRelay("bump", guildId, effectiveChannelId)
       IN IF guildId = NoGuild \/ effectiveChannelId = NoChannel
          THEN Put(t, Done(Task("bump", "done", guildId, effectiveChannelId), 400))
               /\ UNCHANGED sessionVars
          ELSE Put(t, r.task) /\ SetSession(r.sess)
    /\ UNCHANGED <<envVars, configVars, timerVars, gatewayVars, cacheVars, platformVars>>

\* readyPromise resolved: a relay that waited for it goes on (line 478)
EnsureGatewaySession(t) ==
    /\ tasks[t].pc = "ensureGatewaySession"
    /\ ClientIsReady
    /\ LET r == GatewaySessionStep(tasks[t], SessionState)
       IN Put(t, r.task) /\ SetSession(r.sess)
    /\ UNCHANGED <<envVars, configVars, timerVars, gatewayVars, cacheVars, platformVars>>

\* sessionReadyPromise resolved: a relay that waited for it goes on (lines 485-487)
AwaitSessionReady(t) ==
    /\ tasks[t].pc = "awaitSessionReady"
    /\ sessionReadyPromise # NoSession
    /\ Put(t, FetchStart([tasks[t] EXCEPT !.sessionId = sessionReadyPromise]))
    /\ UNCHANGED <<envVars, configVars, timerVars, sessionVars, gatewayVars,
                   cacheVars, platformVars>>

\* bumpCommandCache.set(guildId, command); return command
CacheSet(guildId, command) ==
    /\ bumpCommandCache' = [g \in DOMAIN bumpCommandCache \cup {guildId} |->
                              IF g = guildId THEN command ELSE bumpCommandCache[g]]
    /\ firstReturned' = IF guildId \in DOMAIN firstReturned THEN firstReturned
                        ELSE firstReturned @@ (guildId :> command)

\* a mutant of the lookup's end: a listing without a match yields its first command
LookupAnyCommand(commands) ==
    IF HasMatch(commands) THEN [found |-> TRUE, command |-> FindFirst(commands)]
    ELSE IF Len(commands) > 0 THEN [found |-> TRUE, command |-> commands[1]]
    ELSE [found |-> FALSE, command |-> NoCommand]

\* commands.find(...) and the test of its result: lines 581-585
Lookup(commands) ==
    IF HasMatch(commands) THEN [found |-> TRUE, command |-> FindFirst(commands)]
    ELSE [found |-> FALSE, command |-> NoCommand]

\* fetchExternalBumpCommand from line 581, then executeExternalBump's POST
Resolve(t, task, commands) ==
    LET r == Lookup(commands)
    IN IF r.found
       THEN /\ CacheSet(task.guildId, r.command)
            /\ Put(t, Submit(task, r.command))
       ELSE /\ Put(t, Failed(task, NotFoundError))
            /\ UNCHANGED cacheVars

\* tryGet of the guild-scoped commands returned: the listing, [] (404 or no status
\* and the raw fetch failed), or it throws: lines 570-594
GuildQuery(t, answer) ==
    /\ tasks[t].pc = "guildQuery"
    /\ LET task == [tasks[t] EXCEPT !.degraded = (answer = "empty")]
           commands == IF answer = "listing"
                       THEN Listing(guildCommands[task.guildId], commandVersion)
                       ELSE <<>>
       IN IF answer = "threw"
          THEN Put(t, Failed(task, ListingError)) /\ UNCHANGED cacheVars
          ELSE IF Len(commands) = 0
          THEN Put(t, [task EXCEPT !.pc = "globalQuery"]) /\ UNCHANGED cacheVars
          ELSE Resolve(t, task, commands)
    /\ UNCHANGED <<envVars, configVars, timerVars, sessionVars, gatewayVars, platformVars>>

\* tryGet of the global commands returned: lines 575-594
GlobalQuery(t, answer) ==
    /\ tasks[t].pc = "globalQuery"
    /\ LET task == [tasks[t] EXCEPT !.degraded = (@ \/ answer = "empty")]
           commands == IF answer = "listing" THEN Listing(globalCommands, commandVersion)
                       ELSE <<>>
       IN IF answer = "threw"
          THEN Put(t, Failed(task, ListingError)) /\ UNCHANGED cacheVars
          ELSE Resolve(t, task, commands)
    /\ UNCHANGED <<envVars, configVars, timerVars, sessionVars, gatewayVars, platformVars>>

\* a mutant of the submission's end: a tick that fails takes its guild's timer down
PostResponseStopsTimer(t, ok, rejection) ==
    /\ tasks[t].pc = "post"
    /\ Put(t, IF ok THEN Succeeded(tasks[t]) ELSE Failed(tasks[t], rejection))
    /\ IF ~ok /\ tasks[t].kind = "tick"
       THEN SetTimers(removeTimer(TimerState, tasks[t].guildId))
       ELSE UNCHANGED timerVars
    /\ UNCHANGED <<envVars, configVars, sessionVars, gatewayVars, cacheVars, platformVars>>

\* a mutant of the submission's end: a rejected submission is sent once more
PostResponseRetries(t, ok, rejection) ==
    /\ tasks[t].pc = "post"
    /\ Put(t, IF ok THEN Succeeded(tasks[t])
              ELSE IF tasks[t].posts < 2 THEN Submit(tasks[t], tasks[t].command)
              ELSE Failed(tasks[t], rejection))
    /\ UNCHANGED <<envVars, configVars, timerVars, sessionVars, gatewayVars,
                   cacheVars, platformVars>>

\* client.rest.post("/interactions") returned or threw: lines 602-620
PostResponse(t, ok, rejection) ==
    /\ tasks[t].pc = "post"
    /\ Put(t, IF ok THEN Succeeded(tasks[t]) ELSE Failed(tasks[t], rejection))
    /\ UNCHANGED <<envVars, configVars, timerVars, sessionVars, gatewayVars,
                   cacheVars, platformVars>>

(***************************************************************************)
(* Startup (lines 405-420): the values read from the environment, their    *)
(* defaults, and the test that ends the process.                           *)
(***************************************************************************)
EnvNames ==
    {"DISCORD_BOT_TOKEN", "CLIENT_ID", "CLIENT_SECRET", "REDIRECT_URI", "SESSION_SECRET",
     "DEFAULT_INTERVAL_MINUTES", "BUMP_APPLICATION_ID", "BUMP_COMMAND_NAME"}

\* the values the destructuring gives no default
WithoutDefault == {"DISCORD_BOT_TOKEN", "CLIENT_ID", "CLIENT_SECRET"}

\* a mutant of the test: every value is required
EnvCompleteStrict(missing) == missing = {}

\* !( !DISCORD_BOT_TOKEN || !CLIENT_ID || !CLIENT_SECRET ): lines 417-420
EnvComplete(missing) == missing \cap WithoutDefault = {}

\* The top-level code runs: process.exit(1), or on to login and listen
Startup ==
    /\ processState = "starting"
    /\ processState' = IF EnvComplete(missingEnv) THEN "serving" ELSE "exited"
    /\ UNCHANGED <<revision, missingEnv, DEFAULT_INTERVAL_MINUTES, configVars, timerVars,
                   sessionVars, gatewayVars, cacheVars, platformVars, tasks>>

(***************************************************************************)
(* The slash command /bump (lines 665-714).  The client hands interactions *)
(* to the handler once it is ready.  Only this entry point validates the   *)
(* destination channel (line 694) before it relays.                        *)
(***************************************************************************)
\* InteractionCreate for /bump, up to interaction.deferReply
SlashCommand(t, guildId, requestedChannel) ==
    /\ clientReady
    /\ FreeSlot(t)
    /\ LET targetChannelId == IF requestedChannel # NoChannel THEN requestedChannel
                              ELSE ChannelOf(config, guildId)
       IN IF guildId = NoGuild \/ targetChannelId = NoChannel
          THEN Put(t, Done(Task("slash", "done", guildId, targetChannelId), 0))
          ELSE Put(t, Task("slash", "slashDefer", guildId, targetChannelId))
    /\ UNCHANGED <<envVars, configVars, timerVars, sessionVars, gatewayVars,
                   cacheVars, platformVars>>

\* deferReply was answered; resolveTextChannel asks for the guild
SlashDeferred(t) ==
    /\ tasks[t].pc = "slashDefer"
    /\ Put(t, [tasks[t] EXCEPT !.pc = "slashFetchGuild"])
    /\ UNCHANGED <<envVars, configVars, timerVars, sessionVars, gatewayVars,
                   cacheVars, platformVars>>

\* client.guilds.fetch answered; resolveTextChannel asks for the channel
SlashFetchGuild(t, ok) ==
    /\ tasks[t].pc = "slashFetchGuild"
    /\ IF ok THEN Put(t, [tasks[t] EXCEPT !.pc = "slashFetchChannel"])
       ELSE Put(t, Failed(tasks[t], Err(0, "Bot is not in this guild or cannot access it.")))
    /\ UNCHANGED <<envVars, configVars, timerVars, sessionVars, gatewayVars,
                   cacheVars, platformVars>>

\* guild.channels.fetch answered: the command is refused, or the relay starts
SlashFetchChannel(t, answer) ==
    /\ tasks[t].pc = "slashFetchChannel"
    /\ LET task == [tasks[t] EXCEPT !.pc = "ensureGatewaySession", !.validated = TRUE,
                                    !.relays = @ + 1]
           r == GatewaySessionStep(task, SessionState)
       IN IF answer = "text"
          THEN Put(t, r.task) /\ SetSession(r.sess)
          ELSE /\ Put(t, Failed(tasks[t],
                                Err(0, IF answer = "threw"
                                       THEN "Unable to access the selected channel."
                                       ELSE "Selected channel is not a text channel.")))
               /\ UNCHANGED sessionVars
    /\ UNCHANGED <<envVars, configVars, timerVars, gatewayVars, cacheVars, platformVars>>

(***************************************************************************)
(* The first revision (lines 1-391): the relay reads the shard's session   *)
(* id when it starts and does not wait for one.  Its command lookup and    *)
(* its submission have the steps of the final revision.                    *)
(***************************************************************************)
\* a mutant of the first revision's executeExternalBump: no test of the session id
StartRelayRev1NoCheck(kind, guildId, channelId) ==
    FetchStart([Task(kind, "executeExternalBump", guildId, channelId)
                  EXCEPT !.sessionId = shardSessionId, !.relays = 1])

\* executeExternalBump of the first revision up to its first wait: lines 111-117
StartRelayRev1(kind, guildId, channelId) ==
    LET task == [Task(kind, "executeExternalBump", guildId, channelId) EXCEPT !.relays = 1]
    IN IF shardSessionId = NoSession THEN Failed(task, NotReadyError)
       ELSE FetchStart([task EXCEPT !.sessionId = shardSessionId])

\* client.once(Events.ClientReady, ...) of the first revision: lines 187-190
ClientReadyRev1 ==
    /\ ~clientReady
    /\ clientReady' = TRUE
    /\ SetTimers(scheduleAll(TimerState, config, DOMAIN config, DEFAULT_INTERVAL_MINUTES))
    /\ UNCHANGED <<envVars, configVars, sessionVars, readyPromise, shardSessionId,
                   reportedSessionIds, cacheVars, platformVars, tasks>>

\* A timer fires in the first revision: sendBump, lines 159-172
TimerFireRev1(h, t) ==
    /\ h \in DOMAIN timers
    /\ FreeSlot(t)
    /\ LET guildId == timers[h].guildId
           channelId == ChannelOf(config, guildId)
       IN IF channelId = NoChannel
          THEN Put(t, Done(Task("tick", "done", guildId, NoChannel), 0))
          ELSE Put(t, StartRelayRev1("tick", guildId, channelId))
    /\ UNCHANGED <<envVars, configVars, timerVars, sessionVars, gatewayVars,
                   cacheVars, platformVars>>

\* POST /api/bump of the first revision up to its first wait: lines 355-367
BumpRequestRev1(t, guildId) ==
    /\ FreeSlot(t)
    /\ LET channelId == ChannelOf(config, guildId)
       IN IF guildId = NoGuild \/ channelId = NoChannel
          THEN Put(t, Done(Task("bump", "done", guildId, channelId), 400))
          ELSE Put(t, StartRelayRev1("bump", guildId, channelId))
    /\ UNCHANGED <<envVars, configVars, timerVars, sessionVars, gatewayVars,
                   cacheVars, platformVars>>

\* The external bot publishes a new version of its commands
BotUpdatesCommand ==
    /\ commandVersion < MaxVersion
    /\ commandVersion' = commandVersion + 1
    /\ UNCHANGED <<envVars, configVars, timerVars, sessionVars, gatewayVars,
                   cacheVars, guildCommands, globalCommands, tasks>>

(***************************************************************************)
(* Specifications.  The actions are the same; a specification fixes the    *)
(* start (environment, configs.json, the external bot's commands) and the  *)
(* inputs the requests and answers are drawn from.                         *)
(***************************************************************************)
GatewayEvents(sessions) ==
    \/ \E s \in sessions : GatewaySession(s)
    \/ ShardReady
    \/ ShardResume
    \/ ClientReady

SaveEvents(guilds, channels, answers, intervalInputs, messageInputs) ==
    \/ \E t \in Slots, g \in guilds, c \in channels : SaveRequest(t, g, c)
    \/ \E t \in Slots : SaveFetchGuild(t)
    \/ \E t \in Slots, ok \in BOOLEAN : SaveFetchChannel(t, ok)
    \/ \E t \in Slots, answer \in answers, iv \in intervalInputs, m \in messageInputs :
          SaveCommit(t, answer, iv, m)

RemoveEvents(guilds) ==
    \/ \E t \in Slots, g \in guilds : RemoveRequest(t, g)
    \/ \E t \in Slots : RemoveCommit(t)

RelayStarts(guilds, channels) ==
    \/ \E h \in DOMAIN timers, t \in Slots : TimerFire(h, t)
    \/ \E t \in Slots, g \in guilds, c \in channels : BumpRequest(t, g, c)

SlashEvents(guilds, channels, answers) ==
    \/ \E t \in Slots, g \in guilds, c \in channels : SlashCommand(t, g, c)
    \/ \E t \in Slots : SlashDeferred(t)
    \/ \E t \in Slots, ok \in BOOLEAN : SlashFetchGuild(t, ok)
    \/ \E t \in Slots, answer \in answers : SlashFetchChannel(t, answer)

RelayWaits ==
    \/ \E t \in Slots : EnsureGatewaySession(t)
    \/ \E t \in Slots : AwaitSessionReady(t)

Platform(guildList, globalList) ==
    /\ guildCommands = [g \in Guilds |-> guildList]
    /\ globalCommands = globalList
    /\ commandVersion = 1

\* the module's state once its top-level code has run
Loaded ==
    /\ config = LoadConfig(configFile)
    /\ intervals = EmptyIntervals
    /\ timers = EmptyTimers
    /\ clientReady = FALSE
    /\ readyPromise = "pending"
    /\ latestSessionId = NoSession
    /\ resolveSessionReady = TRUE
    /\ sessionReadyPromise = NoSession
    /\ shardSessionId = NoSession
    /\ reportedSessionIds = {}
    /\ bumpCommandCache = EmptyCache
    /\ firstReturned = EmptyCache
    /\ tasks = [t \in Slots |-> IdleTask]

\* a process that found its environment complete and is serving
Boot ==
    /\ missingEnv = {}
    /\ processState = "serving"
    /\ Loaded

\* The relay specification: every listing and every answer of the platform, the
\* external bot publishing new versions, one guild configured with one interval.
Init ==
    /\ revision = 2
    /\ DEFAULT_INTERVAL_MINUTES = Str("120", 3)
    /\ configFile = Serialize("G1" :> Entry("C1", Whole(5), DEFAULT_MESSAGE))
    /\ \/ Platform(<<>>, <<OtherCommand, GlobalBump>>)
       \/ Platform(<<OtherCommand, GuildBump>>, <<OtherCommand>>)
       \/ Platform(<<OtherCommand>>, <<OtherCommand, GlobalBump>>)
       \/ Platform(<<>>, <<OtherCommand>>)
    /\ Boot

Next ==
    \/ GatewayEvents({"S1"})
    \/ RemoveEvents({"G1"})
    \/ RelayStarts({"G1", NoGuild}, {NoChannel, "C2"})
    \/ RelayWaits
    \/ \E t \in Slots, answer \in {"listing", "empty", "threw"} : GuildQuery(t, answer)
    \/ \E t \in Slots, answer \in {"listing", "empty", "threw"} : GlobalQuery(t, answer)
    \/ \E t \in Slots, ok \in BOOLEAN, rejection \in PostRejections :
          PostResponse(t, ok, rejection)
    \/ BotUpdatesCommand

Spec == Init /\ [][Next]_vars

\* The scheduling specification: every kind of stored and submitted interval, both
\* defaults, requests for one guild beside a second configured one, and an
\* external bot without the command (every relay ends at the guild listing).
SchedIntervalInputs ==
    {Undefined, Null, Whole(0), Num(5), Whole(5), Whole(-5), Str("abc", 3), Str("5", 1)}

SchedMessageInputs == {Undefined, Str("a message longer than the limit", MESSAGE_LIMIT + 1)}

InitSched ==
    /\ revision = 2
    /\ DEFAULT_INTERVAL_MINUTES \in DefaultIntervalChoices
    /\ configFile \in InitialConfigFiles
    /\ Platform(<<OtherCommand>>, <<OtherCommand>>)
    /\ Boot

NextSched ==
    \/ GatewayEvents({"S1"})
    \/ SaveEvents({"G1", NoGuild}, {"C1", NoChannel}, {"text", "voice", "missing", "threw"},
                  SchedIntervalInputs, SchedMessageInputs)
    \/ RemoveEvents({"G1", NoGuild})
    \/ RelayStarts({"G1", NoGuild}, {NoChannel})
    \/ RelayWaits
    \/ \E t \in Slots : GuildQuery(t, "listing")

SpecSched == InitSched /\ [][NextSched]_vars

\* The readiness specification: the gateway hands out session ids in any order
\* around ClientReady while relays start; the external bot has the command in
\* the guild.  Fairness: the event loop runs the continuation of a promise that
\* has resolved, and the client of a connecting gateway becomes ready.
InitLive ==
    /\ revision = 2
    /\ DEFAULT_INTERVAL_MINUTES = Str("120", 3)
    /\ configFile = Serialize("G1" :> Entry("C1", Whole(5), DEFAULT_MESSAGE))
    /\ Platform(<<OtherCommand, GuildBump>>, <<OtherCommand>>)
    /\ Boot

NextLive ==
    \/ GatewayEvents(SessionIds)
    \/ RelayStarts({"G1"}, {NoChannel, "C2"})
    \/ RelayWaits
    \/ \E t \in Slots : GuildQuery(t, "listing")
    \/ \E t \in Slots, ok \in BOOLEAN : PostResponse(t, ok, NotFoundError)

Fairness ==
    /\ WF_vars(ClientReady)
    /\ \A t \in Slots : WF_vars(EnsureGatewaySession(t))
    /\ \A t \in Slots : WF_vars(AwaitSessionReady(t))

SpecLive == InitLive /\ [][NextLive]_vars /\ Fairness

\* The session specification: as the readiness specification, and the gateway may
\* invalidate the shard's session at any time.
InitSession ==
    /\ revision = 2
    /\ DEFAULT_INTERVAL_MINUTES = Str("120", 3)
    /\ configFile = Serialize("G1" :> Entry("C1", Whole(5), DEFAULT_MESSAGE))
    /\ Platform(<<OtherCommand, GuildBump>>, <<OtherCommand>>)
    /\ Boot

NextSession ==
    \/ GatewayEvents(SessionIds)
    \/ SessionInvalidated
    \/ RelayStarts({"G1"}, {NoChannel, "C2"})
    \/ RelayWaits
    \/ \E t \in Slots : GuildQuery(t, "listing")
    \/ \E t \in Slots, ok \in BOOLEAN : PostResponse(t, ok, NotFoundError)

SpecSession == InitSession /\ [][NextSession]_vars

\* The two-guild specification: G1 and G2 are configured with different channels
\* and intervals; saves, removals, ticks and POST /api/bump for either guild, an
\* external bot with the command in every guild.
InitFrame ==
    /\ revision = 2
    /\ DEFAULT_INTERVAL_MINUTES = Str("120", 3)
    /\ configFile = Serialize(("G1" :> Entry("C1", Whole(5), DEFAULT_MESSAGE))
                              @@ ("G2" :> Entry("C2", Whole(120), DEFAULT_MESSAGE)))
    /\ Platform(<<OtherCommand, GuildBump>>, <<OtherCommand>>)
    /\ Boot

NextFrame ==
    \/ GatewayEvents({"S1"})
    \/ SaveEvents(Guilds, {"C1"}, {"text", "voice"}, {Whole(7)}, {Undefined})
    \/ RemoveEvents(Guilds)
    \/ RelayStarts(Guilds, {NoChannel})
    \/ RelayWaits
    \/ \E t \in Slots : GuildQuery(t, "listing")
    \/ \E t \in Slots, ok \in BOOLEAN : PostResponse(t, ok, Err(500, "Internal Server Error"))

SpecFrame == InitFrame /\ [][NextFrame]_vars

\* The two revisions side by side: the gateway hands out a session id before
\* or after relays start; the external bot has the command in the guild.
InitRevs ==
    /\ revision \in {1, 2}
    /\ DEFAULT_INTERVAL_MINUTES = Str("120", 3)
    /\ configFile = Serialize("G1" :> Entry("C1", Whole(5), DEFAULT_MESSAGE))
    /\ Platform(<<OtherCommand, GuildBump>>, <<OtherCommand>>)
    /\ Boot

NextRev1 ==
    \/ \E s \in {"S1"} : GatewaySession(s)
    \/ ClientReadyRev1
    \/ \E h \in DOMAIN timers, t \in Slots : TimerFireRev1(h, t)
    \/ \E t \in Slots, g \in {"G1", "G2", NoGuild} : BumpRequestRev1(t, g)
    \/ \E t \in Slots, answer \in {"listing", "threw"} : GuildQuery(t, answer)
    \/ \E t \in Slots, ok \in BOOLEAN : PostResponse(t, ok, Err(500, "Internal Server Error"))

NextRev2 ==
    \/ GatewayEvents({"S1"})
    \/ RelayStarts({"G1", NoGuild}, {NoChannel, "C2"})
    \/ RelayWaits
    \/ \E t \in Slots, answer \in {"listing", "threw"} : GuildQuery(t, answer)
    \/ \E t \in Slots, ok \in BOOLEAN : PostResponse(t, ok, Err(500, "Internal Server Error"))

NextRevs ==
    \/ revision = 1 /\ NextRev1
    \/ revision = 2 /\ NextRev2

SpecRevs == InitRevs /\ [][NextRevs]_vars

\* The entry points side by side: ticks, POST /api/bump and the slash command
\* relay to a platform that accepts or rejects the submission in every way.
InitEntry ==
    /\ revision = 2
    /\ DEFAULT_INTERVAL_MINUTES = Str("120", 3)
    /\ configFile = Serialize("G1" :> Entry("C1", Whole(5), DEFAULT_MESSAGE))
    /\ Platform(<<OtherCommand, GuildBump>>, <<OtherCommand>>)
    /\ Boot

NextEntry ==
    \/ GatewayEvents({"S1"})
    \/ RelayStarts({"G1", NoGuild}, {NoChannel, "C2"})
    \/ SlashEvents({"G1", NoGuild}, {NoChannel, "C2"}, {"text", "voice", "threw"})
    \/ RelayWaits
    \/ \E t \in Slots : GuildQuery(t, "listing")
    \/ \E t \in Slots, ok \in BOOLEAN, rejection \in EntryRejections :
          PostResponse(t, ok, rejection)

SpecEntry == InitEntry /\ [][NextEntry]_vars

\* Startup under every environment: each value set or missing.
InitBoot ==
    /\ revision \in {1, 2}
    /\ missingEnv \in SUBSET EnvNames
    /\ processState = "starting"
    /\ DEFAULT_INTERVAL_MINUTES = IF "DEFAULT_INTERVAL_MINUTES" \in missingEnv
                                  THEN Str("120", 3) ELSE Str("5", 1)
    /\ configFile = NoFile
    /\ Platform(<<OtherCommand>>, <<OtherCommand>>)
    /\ Loaded

NextBoot == Startup

SpecBoot == InitBoot /\ [][NextBoot]_vars

(***************************************************************************)
(* Properties of the scheduler, checked under SpecSched.                   *)
(***************************************************************************)
LiveTimersOf(g) == {h \in DOMAIN timers : timers[h].guildId = g}

OneMinuteMs == Times(Whole(1), 60 * 1000)

\* POST /api/save stored and armed in this step, in slot t
SaveCommitted(t) ==
    /\ tasks[t].pc = "saveFetchChannel"
    /\ tasks'[t].pc = "done"
    /\ tasks'[t].status = 200

\* a timer callback starts in slot t in this step
TickStarts(t) ==
    /\ ~InFlight(t)
    /\ tasks'[t] # tasks[t]
    /\ tasks'[t].kind = "tick"

\* C1: every guild has at most one live timer, counting timers whose handle is no
\* longer in the intervals map; a guild with a handle in the map (scheduleGuild ran
\* for it, once or again) has exactly one live timer, the one the map names.
C1_AtMostOneLiveTimer ==
    \A g \in Guilds :
        /\ Cardinality(LiveTimersOf(g)) <= 1
        /\ g \in DOMAIN intervals => LiveTimersOf(g) = {intervals[g]}

\* C1 witness: two saves for G1 have completed (scheduleGuild ran twice), one timer lives
C1_Witness ==
    /\ \A t \in Slots : tasks[t].kind = "save" /\ tasks[t].pc = "done"
                        /\ tasks[t].status = 200 /\ tasks[t].guildId = "G1"
    /\ Cardinality(LiveTimersOf("G1")) = 1

\* C2: a guild without a config entry (removed, and not saved again) has no live
\* timer and no handle in the intervals map, after every step; and a timer callback
\* only ever starts for a guild that has a config entry.
C2_RemovedGuildHasNoTimer ==
    [][ /\ \A g \in Guilds : g \notin DOMAIN config' =>
              /\ LiveTimersOf(g)' = {}
              /\ g \notin DOMAIN intervals'
        /\ \A t \in Slots : TickStarts(t) => tasks'[t].guildId \in DOMAIN config ]_vars

\* C2 witness: a removal of G1 that cancelled G1's timer has completed
C2_Witness ==
    \E t \in Slots :
        /\ tasks[t].kind = "remove" /\ tasks[t].pc = "done" /\ tasks[t].status = 200
        /\ tasks[t].guildId = "G1" /\ tasks[t].hadTimer
        /\ "G1" \notin DOMAIN config
        /\ LiveTimersOf("G1") = {}
        /\ LiveTimersOf("G2") # {}

\* The period C3 claims: the stored interval, or the default when it is absent or
\* not numeric, clamped to one minute, times 60000
C3_ClaimedPeriod(stored, default) ==
    LET minutes == IF stored.t \in {"undefined", "null"} \/ Number(stored).t = "NaN"
                   THEN Number(default) ELSE Number(stored)
    IN Times(MathMax(Whole(1), minutes), 60 * 1000)

\* C3: every live timer has a period of at least 60000 ms, equal to the clamped
\* interval times 60000, with the default in place of an absent or non-numeric value.
C3_PeriodAtLeastOneMinute ==
    \A h \in DOMAIN timers :
        /\ timers[h].ms.t = "number"
        /\ timers[h].ms.n >= OneMinuteMs.n
        /\ timers[h].ms = C3_ClaimedPeriod(IntervalOf(config, timers[h].guildId),
                                           DEFAULT_INTERVAL_MINUTES)

\* intervalMinutes of a request body is 0 or not numeric
ZeroOrNonNumeric(intervalMinutes) ==
    \/ Number(intervalMinutes).t = "NaN"
    \/ Number(intervalMinutes).t = "number" /\ Number(intervalMinutes).n = 0

\* C4: a save whose intervalMinutes is 0 or not numeric stores the default interval,
\* and the timer it arms has the default, clamped to one minute, as its period.
C4_SaveFallsBackToDefault ==
    [][ \A t \in Slots :
          (SaveCommitted(t) /\ ZeroOrNonNumeric(tasks'[t].intervalMinutes)) =>
             LET g == tasks'[t].guildId
             IN /\ config'[g].intervalMinutes = Number(DEFAULT_INTERVAL_MINUTES)
                /\ timers'[intervals'[g]].ms =
                      Times(MathMax(Whole(1), Number(DEFAULT_INTERVAL_MINUTES)), 60 * 1000) ]_vars

\* C4 witness: a save with a non-numeric interval has completed under the default
\* "0.5", which is stored and clamped to one minute
C4_Witness ==
    \E t \in Slots :
        /\ tasks[t].kind = "save" /\ tasks[t].pc = "done" /\ tasks[t].status = 200
        /\ tasks[t].intervalMinutes = Str("abc", 3)
        /\ DEFAULT_INTERVAL_MINUTES = Str("0.5", 3)
        /\ config[tasks[t].guildId].intervalMinutes = Num(5)
        /\ timers[intervals[tasks[t].guildId]].ms = OneMinuteMs

\* intervalMinutes of a request body is a positive number
PositiveNumber(intervalMinutes) == intervalMinutes.t = "number" /\ intervalMinutes.n > 0

\* Every armed guild's timer has the period derived from its stored interval
C5_TimerFollowsConfig ==
    \A g \in DOMAIN intervals :
        /\ intervals[g] \in DOMAIN timers
        /\ timers[intervals[g]].ms =
              Times(MathMax(Whole(1), Number(NullishCoalesce(IntervalOf(config, g),
                                                             DEFAULT_INTERVAL_MINUTES))),
                    60 * 1000)

C13_TickWithoutChannelIsNoOp ==
    /\ [][ \A t \in Slots :
             TickStarts(t) =>
                LET g == tasks'[t].guildId
                IN IF ChannelOf(config, g) = NoChannel
                   THEN /\ tasks'[t].pc = "done"
                        /\ tasks'[t].err = NoError
                        /\ tasks'[t].command = NoCommand
                        /\ UNCHANGED <<sessionVars, cacheVars>>
                   ELSE /\ tasks'[t].pc # "done"
                        /\ tasks'[t].channelId = ChannelOf(config, g) ]_vars
    /\ [][ \A t \in Slots :
             (tasks[t].kind = "tick" /\ InFlight(t)) =>
                tasks'[t].channelId = tasks[t].channelId ]_vars
    /\ [](\A t \in Slots :
            (tasks[t].kind = "tick" /\ tasks[t].channelId = NoChannel) =>
                tasks[t].pc = "done" /\ tasks[t].err = NoError)

\* C13 witness: a tick of G2, configured without a channel, has ended as a no-op while
\* G2's timer lives
C13_Witness ==
    \E t \in Slots :
        /\ tasks[t].kind = "tick" /\ tasks[t].pc = "done"
        /\ tasks[t].guildId = "G2" /\ tasks[t].channelId = NoChannel
        /\ "G2" \in DOMAIN config /\ config["G2"].channelId = NoChannel
        /\ LiveTimersOf("G2") # {}
        /\ bumpCommandCache = EmptyCache

\* a removal ran to its end in this step, in slot t
RemoveCommitted(t) ==
    /\ tasks'[t] # tasks[t]
    /\ tasks'[t].kind = "remove"
    /\ tasks'[t].pc = "done"
    /\ tasks'[t].status = 200

\* C15 as stated: at every event-loop boundary configs.json equals the
\* serialization of the in-memory config.
C15_FileEqualsSerialization == configFile = Serialize(config)

\* C15 amended: a configs.json that exists and parses equals the serialization of
\* the in-memory config at every event-loop boundary (a file that is absent or
\* unparsable at start stays so while the config is {}); every step that changes
\* the config, and every save and remove that runs to its end, leaves the file
\* equal to the serialization of the config of the same step.
C15_FileFollowsEveryMutation ==
    /\ [](configFile.exists /\ configFile.valid => configFile = Serialize(config))
    /\ [][ (\/ config' # config
            \/ \E t \in Slots : SaveCommitted(t) \/ RemoveCommitted(t))
           => configFile' = Serialize(config') ]_vars

\* C15 witness: a save and a removal have both run to their end, the removal
\* took the last entry, and the file is the serialization of the empty config
C15_Witness ==
    /\ \E t \in Slots : tasks[t].kind = "save" /\ tasks[t].pc = "done"
                         /\ tasks[t].status = 200
    /\ \E t \in Slots : tasks[t].kind = "remove" /\ tasks[t].pc = "done"
                         /\ tasks[t].status = 200 /\ tasks[t].hadTimer
    /\ configFile = Serialize(config)
    /\ config = EmptyConfig

\* The data model of a stored GuildConfig: a positive integer interval, a channel
\* id, a message of 1 to 2000 characters
PositiveInteger(x) == x.t = "number" /\ x.n > 0 /\ x.n % 10 = 0

SatisfiesDataModel(entry) ==
    /\ PositiveInteger(entry.intervalMinutes)
    /\ entry.channelId # NoChannel
    /\ entry.message.t = "string"
    /\ entry.message.n >= 1
    /\ entry.message.n <= MESSAGE_LIMIT

\* C17: the GuildConfig a POST /api/save stores satisfies the data model (positive
\* integer intervalMinutes, channelId present, message a non-empty string of at
\* most 2000 characters), for every request body the handler accepts.
C17_StoredEntrySatisfiesDataModel ==
    [][ \A t \in Slots : SaveCommitted(t) =>
            SatisfiesDataModel(config'[tasks'[t].guildId]) ]_vars

\* The part of C17 the code does keep: channelId and message of a stored entry
C17_StoredChannelAndMessage ==
    [][ \A t \in Slots : SaveCommitted(t) =>
            LET entry == config'[tasks'[t].guildId]
            IN /\ entry.channelId # NoChannel
               /\ entry.message.t = "string"
               /\ entry.message.n >= 1
               /\ entry.message.n <= MESSAGE_LIMIT ]_vars

\* the guilds that have a live timer
GuildsWithLiveTimer == {g \in Guilds : LiveTimersOf(g) # {}}

\* C20: no timer exists and the intervals map is empty before the ClientReady
\* handler has run; once it has run, at every event-loop boundary, the guilds with
\* a live timer are exactly the guildIds of the config mapping, each with exactly
\* one live timer, the one the intervals map names (so the handler itself arms
\* exactly one timer per guild of the config it finds).
C20_TimersOnlyAfterReadyAndMatchConfig ==
    /\ ~clientReady => timers = EmptyTimers /\ intervals = EmptyIntervals
    /\ clientReady =>
          /\ GuildsWithLiveTimer = DOMAIN config
          /\ DOMAIN intervals = DOMAIN config
          /\ \A g \in DOMAIN config : LiveTimersOf(g) = {intervals[g]}
          /\ Cardinality(DOMAIN timers) = Cardinality(DOMAIN config)

\* C20 witness: the ClientReady handler has run on a config of two guilds, no
\* request has been made since, and each guild has its one timer
C20_Witness ==
    /\ clientReady
    /\ \A t \in Slots : tasks[t] = IdleTask
    /\ DOMAIN config = {"G1", "G2"}
    /\ Cardinality(DOMAIN timers) = 2
    /\ LiveTimersOf("G1") # {} /\ LiveTimersOf("G2") # {}

\* a POST /api/save takes a step in slot t that does not end in its 200 answer
SaveStepWithoutSuccess(t) ==
    /\ tasks'[t] # tasks[t]
    /\ tasks'[t].kind = "save"
    /\ ~(tasks'[t].pc = "done" /\ tasks'[t].status = 200)

\* C24: a POST /api/save that is rejected (guildId or channelId missing, the guild
\* or the channel cannot be fetched, the channel is not a text channel), and every
\* step of a save before its validation has succeeded, leaves the config mapping,
\* configs.json, the timers and the intervals map unchanged; the one step of a save
\* that changes any of them is the step that follows the channel's validation and
\* ends in the 200 answer.
C24_RejectedSaveChangesNothing ==
    [][ \A t \in Slots :
          /\ SaveStepWithoutSuccess(t) => UNCHANGED <<config, configFile, timers, intervals>>
          /\ (tasks'[t] # tasks[t] /\ tasks'[t].kind = "save"
               /\ tasks'[t].pc = "done" /\ tasks'[t].status = 200)
              => tasks[t].pc = "saveFetchChannel" ]_vars

\* C24 witness: the process started without configs.json, the client is ready, and
\* a save for G1 was rejected because its channel is not a text channel: no entry,
\* no file, no timer
C24_Witness ==
    /\ clientReady
    /\ \E t \in Slots :
          /\ tasks[t].kind = "save" /\ tasks[t].pc = "done" /\ tasks[t].status = 400
          /\ tasks[t].guildId = "G1"
          /\ tasks[t].err = Err(0, "Selected channel is not a text channel.")
    /\ config = EmptyConfig
    /\ configFile = NoFile
    /\ timers = EmptyTimers
    /\ intervals = EmptyIntervals

(***************************************************************************)
(* Properties of the command resolver and the relay, checked under Spec.   *)
(***************************************************************************)
\* slot t holds a relay that went past the checks of its caller
RelayOf(t) ==
    /\ tasks[t].kind \in {"tick", "bump"}
    /\ tasks[t].guildId # NoGuild
    /\ tasks[t].channelId # NoChannel

\* the call in slot t begins fetchExternalBumpCommand in this step and misses the cache
LookupStarts(t) ==
    /\ tasks[t].pc \notin {"guildQuery", "globalQuery", "post"}
    /\ tasks'[t].pc = "guildQuery"

\* C6: a call of fetchExternalBumpCommand(g) answered from the cache returns the
\* descriptor the first call for g returned, and once a descriptor was returned for
\* g no call for g begins a network query.
C6_LaterCallsReturnFirstDescriptor ==
    /\ [](\A t \in Slots :
            (RelayOf(t) /\ tasks[t].pc = "post" /\ tasks[t].hit) =>
               tasks[t].command = firstReturned[tasks[t].guildId])
    /\ [][ \A t \in Slots :
             LookupStarts(t) => tasks'[t].guildId \notin DOMAIN firstReturned ]_vars

\* C7: a descriptor stored in the cache for a guild is never removed and never
\* replaced by a different one, whatever the order in which lookups resolve.
C7_CacheIsWriteOnce ==
    [][ \A g \in DOMAIN bumpCommandCache :
          /\ g \in DOMAIN bumpCommandCache'
          /\ bumpCommandCache'[g] = bumpCommandCache[g] ]_vars

\* neither the guild-scoped nor the global commands of g hold the target command
NoMatchInEitherScope(g) ==
    /\ ~HasMatch(Listing(guildCommands[g], commandVersion))
    /\ ~HasMatch(Listing(globalCommands, commandVersion))

\* C8: a lookup whose listings were both delivered fails with the not-found
\* condition only when neither the guild-scoped nor the global commands match.
C8_NotFoundOnlyWithoutMatch ==
    \A t \in Slots :
        (RelayOf(t) /\ tasks[t].pc = "done" /\ tasks[t].err = NotFoundError
           /\ ~tasks[t].degraded) =>
            NoMatchInEitherScope(tasks[t].guildId)

\* C9: a relay is at the interaction endpoint only with a resolved descriptor of the
\* target command, cached for its guild; and while neither scope has the command
\* nothing is cached for the guild, no relay for it is at the endpoint, and every
\* relay for it that ended failed with the not-found condition (or with the error
\* of a listing request that itself failed).
C9_SubmitOnlyAfterResolution ==
    /\ \A t \in Slots :
          (RelayOf(t) /\ tasks[t].pc = "post") =>
              /\ tasks[t].command # NoCommand
              /\ Matches(tasks[t].command)
              /\ tasks[t].guildId \in DOMAIN bumpCommandCache
    /\ \A g \in Guilds :
          NoMatchInEitherScope(g) =>
              /\ g \notin DOMAIN bumpCommandCache
              /\ \A t \in Slots :
                    (RelayOf(t) /\ tasks[t].guildId = g) =>
                        /\ tasks[t].pc # "post"
                        /\ tasks[t].pc = "done" =>
                              tasks[t].err \in {NotFoundError, ListingError}

\* C9 witness: without the command in either scope a manual relay consulted both
\* listings and ended with the not-found condition, nothing cached
C9_Witness ==
    \E t \in Slots :
        /\ RelayOf(t) /\ tasks[t].kind = "bump" /\ tasks[t].pc = "done"
        /\ NoMatchInEitherScope(tasks[t].guildId)
        /\ ~tasks[t].degraded
        /\ tasks[t].err = NotFoundError
        /\ tasks[t].status = 500
        /\ bumpCommandCache = EmptyCache

\* the tick in slot t ends with an error in this step
TickFails(t) ==
    /\ tasks[t].kind = "tick" /\ InFlight(t)
    /\ tasks'[t].pc = "done"
    /\ tasks'[t].err # NoError

\* C12: when the relay of a tick fails, whatever the error, sendBump ends normally
\* (the error is logged, nothing is answered), and the config, its file, the timer
\* map and the live timers with their periods are as they were.
C12_TickSwallowsErrors ==
    [][ \A t \in Slots :
          TickFails(t) =>
             /\ tasks'[t].status = 0
             /\ ~tasks'[t].cooldown
             /\ UNCHANGED <<config, configFile, intervals, timers>> ]_vars

\* C12 witness: a tick of G1 has failed, G1's timer lives with its period of 300000 ms,
\* and another tick of G1 is at the interaction endpoint
C12_Witness ==
    /\ tasks[2].kind = "tick" /\ tasks[2].pc = "done" /\ tasks[2].guildId = "G1"
    /\ tasks[2].err \in PostRejections
    /\ tasks[1].kind = "tick" /\ tasks[1].pc = "post" /\ tasks[1].guildId = "G1"
    /\ "G1" \in DOMAIN intervals
    /\ timers[intervals["G1"]].ms = Num(300000 * 10)

\* C22: removing a guild does not cancel a relay in flight.  The step in which a
\* POST /api/remove deletes the entry and stops the timer leaves every other call
\* as it was, and a tick in flight keeps the guild and the channel it read when it
\* started through every step, so that its submission, issued before or after the
\* removal, targets that channel.
C22_RemovalLeavesRelaysInFlight ==
    [][ /\ \A t \in Slots : RemoveCommitted(t) =>
              \A u \in Slots \ {t} : tasks'[u] = tasks[u]
        /\ \A u \in Slots : InFlight(u) /\ tasks[u].kind = "tick" =>
              /\ tasks'[u].kind = "tick"
              /\ tasks'[u].guildId = tasks[u].guildId
              /\ tasks'[u].channelId = tasks[u].channelId ]_vars

\* C22 witness: G1 was removed (entry gone, timer stopped) while a tick for G1 was
\* in flight; the tick then issued its submission, with no entry for G1 in the
\* config, to the channel C1 it had read when it started
C22_Witness ==
    \E t, u \in Slots :
        /\ tasks[t].kind = "remove" /\ tasks[t].pc = "done" /\ tasks[t].status = 200
        /\ tasks[t].guildId = "G1" /\ tasks[t].hadTimer
        /\ "G1" \notin DOMAIN config
        /\ LiveTimersOf("G1") = {}
        /\ tasks[u].kind = "tick" /\ tasks[u].pc = "post"
        /\ tasks[u].guildId = "G1" /\ tasks[u].channelId = "C1"
        /\ tasks[u].posts = 1 /\ tasks[u].postedUnconfigured

\* a timer callback or a POST /api/bump with a guild and a channel begins in slot t
RelayCallBegins(t) ==
    /\ ~InFlight(t)
    /\ tasks'[t] # tasks[t]
    /\ tasks'[t].kind \in {"tick", "bump"}
    /\ tasks'[t].guildId # NoGuild
    /\ tasks'[t].channelId # NoChannel

\* C23: there is no mutual exclusion between relays of one guild.  A timer callback
\* or a POST /api/bump that has a guild and a channel enters executeExternalBump
\* whatever the other calls are doing, also while another relay of the same guild
\* is in flight, and no step of one call changes another call.
C23_NoMutualExclusion ==
    [][ /\ \A t \in Slots : RelayCallBegins(t) =>
              /\ tasks'[t].pc \notin {"idle", "done"}
              /\ tasks'[t].relays = 1
        /\ \A t, u \in Slots :
              t # u /\ tasks'[t] # tasks[t] => tasks'[u] = tasks[u] ]_vars

\* C23 witness: a tick and a POST /api/bump for G1 are inside executeExternalBump at
\* the same time and each has issued its submission, after a command lookup of its
\* own (neither found the other's descriptor in the cache)
C23_Witness ==
    \E t, u \in Slots :
        /\ tasks[t].kind = "tick" /\ tasks[u].kind = "bump"
        /\ tasks[t].guildId = "G1" /\ tasks[u].guildId = "G1"
        /\ tasks[t].pc = "post" /\ tasks[u].pc = "post"
        /\ tasks[t].posts = 1 /\ tasks[u].posts = 1
        /\ ~tasks[t].hit /\ ~tasks[u].hit

(***************************************************************************)
(* Properties of the readiness wait, checked under SpecLive.               *)
(***************************************************************************)
\* the relay in slot t waits in ensureGatewaySession
PendingOnReadiness(t) ==
    /\ RelayOf(t)
    /\ tasks[t].pc \in {"ensureGatewaySession", "awaitSessionReady"}

\* the relay in slot t is at command resolution or submission
PastReadiness(t) ==
    /\ RelayOf(t)
    /\ tasks[t].pc \in {"guildQuery", "globalQuery", "post"}

\* C10: a relay started without a known session id does not fail for that: it is
\* at command resolution or submission only with a session id, and a relay pending
\* on readiness while a session id has been marked ready eventually continues.
C10_PendingRelayContinues ==
    /\ [](\A t \in Slots :
            /\ PastReadiness(t) => tasks[t].sessionId \in SessionIds
            /\ (RelayOf(t) /\ tasks[t].pc = "done" /\ tasks[t].waited) =>
                  tasks[t].err.message # "Bot gateway session not ready yet")
    /\ \A t \in Slots :
          (PendingOnReadiness(t) /\ latestSessionId # NoSession) ~> ~PendingOnReadiness(t)

\* C10 witness: a relay that awaited sessionReadyPromise is at the interaction
\* endpoint with the session id the promise resolved with
C10_Witness ==
    \E t \in Slots :
        /\ RelayOf(t) /\ tasks[t].waited /\ tasks[t].pc = "post"
        /\ tasks[t].sessionId = sessionReadyPromise
        /\ tasks[t].sessionId \in SessionIds

(***************************************************************************)
(* Properties of the session id, checked under SpecSession.                *)
(***************************************************************************)
\* C25: every interaction submission carries a non-empty session id that the
\* gateway reported.  A relay past ensureGatewaySession holds a non-empty id (the
\* function never returns an empty value); latestSessionId is empty or an id the
\* gateway reported and, once set, is never empty again; markSessionReady of an
\* empty id changes nothing; sessionReadyPromise, once resolved, keeps its value,
\* and resolveSessionReady, once null, stays null.
C25_SubmissionCarriesReportedSession ==
    /\ [](/\ \A t \in Slots :
              /\ tasks[t].pc = "post" =>
                    /\ tasks[t].sessionId # NoSession
                    /\ tasks[t].sessionId \in reportedSessionIds
              /\ PastReadiness(t) => tasks[t].sessionId # NoSession
          /\ latestSessionId \in reportedSessionIds \cup {NoSession}
          /\ markSessionReady(SessionState, NoSession) = SessionState)
    /\ [][ /\ latestSessionId # NoSession => latestSessionId' # NoSession
           /\ sessionReadyPromise # NoSession => sessionReadyPromise' = sessionReadyPromise
           /\ ~resolveSessionReady => ~resolveSessionReady' ]_vars

\* C25 witness: the gateway reported S1, then S2, then invalidated the session;
\* the promise was resolved once, with S1; the ClientReady handler has run; a
\* relay has issued its submission with S2 while the shard has no session id
C25_Witness ==
    /\ clientReady
    /\ shardSessionId = NoSession
    /\ reportedSessionIds = {"S1", "S2"}
    /\ sessionReadyPromise = "S1"
    /\ latestSessionId = "S2"
    /\ \E t \in Slots : /\ tasks[t].pc = "post" /\ tasks[t].posts = 1
                         /\ tasks[t].sessionId = "S2"

(***************************************************************************)
(* Properties of the two revisions, checked under SpecRevs.                *)
(***************************************************************************)
\* executeExternalBump is invoked in slot t in this step
RelayBegins(t) ==
    /\ ~InFlight(t)
    /\ tasks'[t] # tasks[t]
    /\ tasks'[t].kind \in {"tick", "bump"}
    /\ tasks'[t].guildId # NoGuild
    /\ tasks'[t].channelId # NoChannel

\* a relay that ended with the not-ready error looked nothing up and submitted nothing
NotReadyIsTerminal ==
    \A t \in Slots :
        (RelayOf(t) /\ tasks[t].err = NotReadyError) =>
            /\ tasks[t].pc = "done"
            /\ tasks[t].command = NoCommand
            /\ tasks[t].sessionId = NoSession

\* C11 as claimed: a relay invoked while no gateway session is established ends at
\* once with the not-ready error, without a wait, a lookup or a submission.
C11_NoSessionFailsAtOnce ==
    /\ [][ \A t \in Slots :
             (RelayBegins(t) /\ shardSessionId = NoSession /\ latestSessionId = NoSession) =>
                /\ tasks'[t].pc = "done"
                /\ tasks'[t].err = NotReadyError
                /\ UNCHANGED cacheVars ]_vars
    /\ []NotReadyIsTerminal

\* C11 amended: in the first revision a relay invoked while the shard has no session
\* id ends at once with the not-ready error, without a wait, a lookup or a
\* submission; in the final revision no relay ends with that error.
C11_Rev1NoSessionFailsAtOnce ==
    /\ [][ \A t \in Slots :
             (revision = 1 /\ RelayBegins(t) /\ shardSessionId = NoSession) =>
                /\ tasks'[t].pc = "done"
                /\ tasks'[t].err = NotReadyError
                /\ UNCHANGED cacheVars ]_vars
    /\ []NotReadyIsTerminal
    /\ [](\A t \in Slots :
            /\ revision = 1 =>
                  tasks[t].pc \notin {"ensureGatewaySession", "awaitSessionReady"}
            /\ revision = 2 => tasks[t].err # NotReadyError)

\* C11 witness: in the first revision a manual relay made before the shard had a
\* session id was answered 500 with the not-ready error, nothing cached
C11_Witness ==
    \E t \in Slots :
        /\ revision = 1
        /\ RelayOf(t) /\ tasks[t].kind = "bump" /\ tasks[t].pc = "done"
        /\ tasks[t].err = NotReadyError
        /\ tasks[t].status = 500
        /\ shardSessionId = NoSession
        /\ bumpCommandCache = EmptyCache

(***************************************************************************)
(* Properties of the relay's entry points, checked under SpecEntry.        *)
(***************************************************************************)
\* POST /api/bump in slot t was answered after its relay failed
ApiRelayFailed(t) ==
    /\ RelayOf(t) /\ tasks[t].kind = "bump" /\ tasks[t].pc = "done"
    /\ tasks[t].err # NoError

\* the slash command in slot t ended after a failure
SlashFailed(t) ==
    /\ tasks[t].kind = "slash" /\ tasks[t].pc = "done"
    /\ tasks[t].err # NoError

\* C14: POST /api/bump answers a failed relay as a cooldown (HTTP 200, cooldown
\* true) exactly when the error's message matches cooldown / please wait, ignoring
\* case, or the error has status 429; it answers every other failure with HTTP 500,
\* cooldown false.
C14_ApiCooldownIffPatternOr429 ==
    \A t \in Slots :
        ApiRelayFailed(t) =>
            LET claimed == \/ tasks[t].err.status = 429
                           \/ TestIgnoreCase({Cooldown, PleaseWait}, tasks[t].err.message)
            IN /\ tasks[t].cooldown = claimed
               /\ tasks[t].status = IF claimed THEN 200 ELSE 500

\* C16: a relay is at the interaction endpoint only after resolveTextChannel
\* succeeded for its channel within the same request, whichever its entry point.
C16_SubmissionAfterValidation ==
    \A t \in Slots :
        (tasks[t].kind \in {"tick", "bump", "slash"} /\ tasks[t].pc = "post") =>
            tasks[t].validated

\* C19: POST /api/bump and the slash command classify every relay error alike: an
\* error one of them met is a cooldown for it exactly when it is one for the other.
C19_EntryPointsClassifyAlike ==
    \A t \in Slots :
        /\ ApiRelayFailed(t) => tasks[t].cooldown = SlashCooldown(tasks[t].err)
        /\ SlashFailed(t) => tasks[t].cooldown = ApiCooldown(tasks[t].err)

\* C21: nothing is retried.  Every call (timer firing, POST /api/bump, slash
\* command), in flight or finished, succeeded or failed, has called
\* executeExternalBump at most once and has issued at most one interaction
\* submission, none without a call of executeExternalBump; and a call whose
\* submission was answered is finished.
C21_NothingIsRetried ==
    /\ [](\A t \in Slots :
            /\ tasks[t].relays <= 1
            /\ tasks[t].posts <= tasks[t].relays)
    /\ [][ \A t \in Slots :
              tasks[t].pc = "post" /\ tasks'[t] # tasks[t] => tasks'[t].pc = "done" ]_vars

\* C21 witness: a POST /api/bump and a slash command whose submissions the platform
\* rejected have both finished, each after one call and one submission
C21_Witness ==
    /\ \E t \in Slots :
          /\ tasks[t].kind = "bump" /\ tasks[t].pc = "done" /\ tasks[t].status = 500
          /\ tasks[t].err = Err(500, "Internal Server Error")
          /\ tasks[t].relays = 1 /\ tasks[t].posts = 1
    /\ \E t \in Slots :
          /\ tasks[t].kind = "slash" /\ tasks[t].pc = "done"
          /\ tasks[t].err = Err(429, "You are being rate limited.")
          /\ tasks[t].relays = 1 /\ tasks[t].posts = 1

(***************************************************************************)
(* Properties of two guilds side by side, checked under SpecFrame.         *)
(***************************************************************************)
\* What the process holds for guild h: its config entry, its handle in the
\* intervals map, its live timers with their periods, its cached descriptor
ConfigEntryOf(cfg, h) == IF h \in DOMAIN cfg THEN <<cfg[h]>> ELSE <<>>

TimerOf(st, h) ==
    [handle |-> HandleOf(st.intervals, h),
     live |-> {<<k, st.timers[k].ms>> : k \in {j \in DOMAIN st.timers :
                                                 st.timers[j].guildId = h}}]

CachedOf(cache, h) == IF h \in DOMAIN cache THEN <<cache[h]>> ELSE <<>>

GuildView(h) ==
    [entry |-> ConfigEntryOf(config, h),
     timer |-> TimerOf(TimerState, h),
     cached |-> CachedOf(bumpCommandCache, h)]

\* C26: operations on one guild leave every other guild untouched.  A step of a
\* call for guild g (POST /api/save, POST /api/remove, a tick, a POST /api/bump,
\* with the command lookup inside it) changes neither the config entry, nor the
\* timer (handle and period), nor the cached descriptor of any guild other than
\* g; and scheduleGuild(g), from any state, leaves the handle and the timers of
\* every other guild as they are.
C26_OtherGuildsUntouched ==
    /\ [][ \A t \in Slots : tasks'[t] # tasks[t] =>
              \A h \in Guilds \ {tasks'[t].guildId} : GuildView(h)' = GuildView(h) ]_vars
    /\ [](\A g \in Guilds : \A h \in Guilds \ {g} :
            TimerOf(scheduleGuild(TimerState, config, g, DEFAULT_INTERVAL_MINUTES), h)
               = TimerOf(TimerState, h))

\* C26 witness: G1 was saved with a new interval and re-armed, and a relay for G1
\* cached its descriptor; G2 has the entry, the period and the empty cache slot
\* it started with
C26_Witness ==
    /\ \E t \in Slots : /\ tasks[t].kind = "save" /\ tasks[t].pc = "done"
                         /\ tasks[t].status = 200 /\ tasks[t].guildId = "G1"
    /\ DOMAIN config = Guilds
    /\ DOMAIN intervals = Guilds
    /\ config["G1"].intervalMinutes = Whole(7)
    /\ "G1" \in DOMAIN bumpCommandCache
    /\ "G2" \notin DOMAIN bumpCommandCache
    /\ config["G2"] = Entry("C2", Whole(120), DEFAULT_MESSAGE)
    /\ timers[intervals["G2"]] = [guildId |-> "G2", ms |-> Times(Whole(120), 60 * 1000)]
    /\ timers[intervals["G1"]] = [guildId |-> "G1", ms |-> Times(Whole(7), 60 * 1000)]

(***************************************************************************)
(* Properties of startup, checked under SpecBoot.                          *)
(***************************************************************************)
\* C18 as stated: startup is fatal (the process exits before it logs in or listens)
\* whenever any of the eight environment values is missing.
C18_AnyMissingValueIsFatal ==
    processState # "starting" /\ missingEnv # {} => processState = "exited"

\* C18 amended: startup is fatal exactly when the bot token, the client id or the
\* client secret is missing; a process missing only values among the redirect URI,
\* the session secret, the default interval minutes, the external application id
\* and the external command name goes on to log in and listen, with their defaults.
C18_FatalIffTokenIdOrSecretMissing ==
    /\ processState # "starting" =>
          (processState = "exited" <=> missingEnv \cap WithoutDefault # {})
    /\ processState = "serving" /\ "DEFAULT_INTERVAL_MINUTES" \in missingEnv =>
          DEFAULT_INTERVAL_MINUTES = Str("120", 3)

\* C18 witness: the process exited with only the bot token missing
C18_Witness ==
    /\ processState = "exited"
    /\ missingEnv = {"DISCORD_BOT_TOKEN"}

====
